---- MODULE Spec2Model ----
(***************************************************************************)
(* Model of the active-notebook tracker of src/notebook/plugin.ts          *)
(* (class ActiveNotebook, TrackingNotebookWidgetFactory) : the tracked     *)
(* widget list, the active widget, the activeNotebookChanged signal, the   *)
(* capturing focus listener and the per-widget disposed handler.           *)
(*                                                                         *)
(* Panels are opaque handles 1..MaxPanels; Null (0) is JavaScript null.    *)
(* The handlers run to completion on one event loop, so every handler is   *)
(* one action.  The setter is handed null or a widget the host has not     *)
(* disposed; widgets are numbered in the order the tracker first sees them.*)
(***************************************************************************)
EXTENDS Integers, Sequences, FiniteSets, TLC

MaxPanels == 3

MaxKernels == 3

MaxDisplay == 2

MaxConsoles == 2

Null == 0

Panels == 1..MaxPanels

VARIABLES
  widgets,       \* ActiveNotebook._widgets
  activeWidget,  \* ActiveNotebook._activeWidget
  connected,     \* widgets whose disposed signal has a tracker slot connected
  disposed,      \* widgets the host has disposed (Widget.isDisposed)
  isAttached,    \* widgets with Widget.isAttached
  isVisible,     \* widgets with Widget.isVisible
  emits,         \* activeNotebookChanged emissions of the last handler
  calls,         \* arguments of the setter calls made by the last handler
  lastOp,        \* the last handler that ran and its input
  preActive,     \* _activeWidget before the last handler
  preWidgets,    \* _widgets before the last handler
  regLog,        \* widgets in order of their first registration
  dispatched,    \* actions the last command handler sent, with their panel
  kernelspecs,   \* services.kernelspecs.kernelspecs, in iteration order
  activated,     \* the extensions whose activate function has run
  creators,      \* registry.registerCreator calls, in order
  consoleCommands, \* console:create commands and palette entries, in order
  count,         \* activateConsole's count
  sessions,      \* manager.startNew requests, in order of invocation
  consoleWidgets, \* console Private.widgets
  consoleActive  \* console Private.activeWidget

vars == <<widgets, activeWidget, connected, disposed, isAttached, isVisible,
          emits, calls, lastOp, preActive, preWidgets, regLog, dispatched,
          kernelspecs, activated, creators, consoleCommands, count, sessions,
          consoleWidgets, consoleActive>>

\* The state of the extensions outside the notebook tracker.
pluginVars == <<kernelspecs, activated, creators, consoleCommands, count,
                sessions, consoleWidgets, consoleActive>>

\* The state of the notebook tracker and of its widgets.
trackerVars == <<widgets, activeWidget, connected, disposed, isAttached,
                 isVisible, regLog>>

Range(s) == {s[i] : i \in 1..Len(s)}

\* Array.prototype.indexOf: 0-based index of the first occurrence, or -1.
indexOf(s, w) ==
  IF \E i \in 1..Len(s) : s[i] = w
    THEN (CHOOSE i \in 1..Len(s) : s[i] = w /\ \A j \in 1..(i-1) : s[j] # w) - 1
    ELSE -1

\* splice dropping the element before the one asked for.
splice1_OffByOne(s, index) ==
  LET len   == Len(s)
      start == IF index - 1 < 0 THEN (IF len + index - 1 < 0 THEN 0 ELSE len + index - 1)
               ELSE (IF index - 1 > len THEN len ELSE index - 1)
  IN [i \in 1..(IF start < len THEN len - 1 ELSE len) |->
        IF i <= start THEN s[i] ELSE s[i+1]]

\* Array.prototype.splice(index, 1): a negative index counts from the end.
splice1(s, index) ==
  LET len   == Len(s)
      start == IF index < 0 THEN (IF len + index < 0 THEN 0 ELSE len + index)
               ELSE (IF index > len THEN len ELSE index)
  IN [i \in 1..(IF start < len THEN len - 1 ELSE len) |->
        IF i <= start THEN s[i] ELSE s[i+1]]

\* The tracker's own fields, as the setter and the disposed slot change them.
Tracker == [active |-> activeWidget, widgets |-> widgets,
            connected |-> connected, emits |-> <<>>]

\* activeNotebookChanged.emit(widget): slots run synchronously and read the
\* getter, which returns t.active.
emit(t, w) ==
  [t EXCEPT !.emits = Append(@, [value |-> w, seen |-> t.active])]

\* The setter without the early return for the current widget.
activeNotebookSet_NoSameCheck(t, w) ==
  IF indexOf(t.widgets, w) # -1
    THEN emit([t EXCEPT !.active = w], w)
  ELSE IF w = Null
    THEN t
  ELSE [t EXCEPT !.widgets = Append(@, w), !.connected = @ \cup {w}]

\* The setter emitting before it assigns.
activeNotebookSet_EmitFirst(t, w) ==
  IF t.active = w
    THEN t
  ELSE IF indexOf(t.widgets, w) # -1
    THEN [emit(t, w) EXCEPT !.active = w]
  ELSE IF w = Null
    THEN t
  ELSE [t EXCEPT !.widgets = Append(@, w), !.connected = @ \cup {w}]

\* The setter assigning without emitting.
activeNotebookSet_NoEmit(t, w) ==
  IF t.active = w
    THEN t
  ELSE IF indexOf(t.widgets, w) # -1
    THEN [t EXCEPT !.active = w]
  ELSE IF w = Null
    THEN t
  ELSE [t EXCEPT !.widgets = Append(@, w), !.connected = @ \cup {w}]

\* The setter making a widget active as it registers it, without emitting.
activeNotebookSet_ActivateNew(t, w) ==
  IF t.active = w
    THEN t
  ELSE IF indexOf(t.widgets, w) # -1
    THEN emit([t EXCEPT !.active = w], w)
  ELSE IF w = Null
    THEN t
  ELSE [t EXCEPT !.active = w, !.widgets = Append(@, w),
                 !.connected = @ \cup {w}]

\* The setter emitting when it registers a widget.
activeNotebookSet_EmitOnPush(t, w) ==
  IF t.active = w
    THEN t
  ELSE IF indexOf(t.widgets, w) # -1
    THEN emit([t EXCEPT !.active = w], w)
  ELSE IF w = Null
    THEN t
  ELSE emit([t EXCEPT !.widgets = Append(@, w), !.connected = @ \cup {w}], w)

\* set activeNotebook(widget)
activeNotebookSet(t, w) ==
  IF t.active = w
    THEN t
  ELSE IF indexOf(t.widgets, w) # -1
    THEN emit([t EXCEPT !.active = w], w)
  ELSE IF w = Null
    THEN t
  ELSE [t EXCEPT !.widgets = Append(@, w), !.connected = @ \cup {w}]

\* The slot connected to widget.disposed by the setter.
disposedSlot(t, w) ==
  LET index == indexOf(t.widgets, w)
      t1    == [t EXCEPT !.widgets = splice1(@, index)]
  IN IF t1.active = w THEN activeNotebookSet(t1, Null) ELSE t1

RECURSIVE focusTargets_NoReturn(_, _)
\* The focus loop without its return: every matching widget is assigned.
focusTargets_NoReturn(ws, target) ==
  IF ws = <<>> THEN <<>>
  ELSE IF Head(ws) \in isAttached /\ Head(ws) \in isVisible /\ Head(ws) \in target
    THEN <<Head(ws)>> \o focusTargets_NoReturn(Tail(ws), target)
  ELSE focusTargets_NoReturn(Tail(ws), target)

RECURSIVE focusTargets_NoContains(_, _)
\* The focus loop without the node.contains test.
focusTargets_NoContains(ws, target) ==
  IF ws = <<>> THEN <<>>
  ELSE IF Head(ws) \in isAttached /\ Head(ws) \in isVisible
    THEN <<Head(ws)>>
  ELSE focusTargets_NoContains(Tail(ws), target)

RECURSIVE focusTargets_NoAttached(_, _)
\* The focus loop without the isAttached test.
focusTargets_NoAttached(ws, target) ==
  IF ws = <<>> THEN <<>>
  ELSE IF Head(ws) \in isVisible /\ Head(ws) \in target
    THEN <<Head(ws)>>
  ELSE focusTargets_NoAttached(Tail(ws), target)

RECURSIVE focusTargets(_, _)
\* The focus listener's loop: the widgets it assigns to activeNotebook, in
\* order.  target is the set of widgets whose node contains event.target.
focusTargets(ws, target) ==
  IF ws = <<>> THEN <<>>
  ELSE IF Head(ws) \in isAttached /\ Head(ws) \in isVisible /\ Head(ws) \in target
    THEN <<Head(ws)>>
  ELSE focusTargets(Tail(ws), target)

RECURSIVE applySetter(_, _)
\* The setter applied to each widget of a sequence in turn.
applySetter(t, ws) ==
  IF ws = <<>> THEN t ELSE applySetter(activeNotebookSet(t, Head(ws)), Tail(ws))

\* regLog after a setter call with w from outside the tracker.
Registered(w) ==
  IF w # Null /\ w \notin Range(regLog) THEN Append(regLog, w) ELSE regLog

\* Store a tracker value and the history of the handler that produced it.
Commit(t, op, arg, target, cs) ==
  /\ activeWidget' = t.active
  /\ widgets' = t.widgets
  /\ connected' = t.connected
  /\ emits' = t.emits
  /\ calls' = cs
  /\ lastOp' = [op |-> op, arg |-> arg, target |-> target, kernel |-> FALSE]
  /\ preActive' = activeWidget
  /\ preWidgets' = widgets
  /\ dispatched' = <<>>
  /\ UNCHANGED pluginVars

Init ==
  /\ widgets = <<>>
  /\ activeWidget = Null
  /\ connected = {}
  /\ disposed = {}
  /\ isAttached = {}
  /\ isVisible = {}
  /\ emits = <<>>
  /\ calls = <<>>
  /\ lastOp = [op |-> "init", arg |-> Null, target |-> {}, kernel |-> FALSE]
  /\ preActive = Null
  /\ preWidgets = <<>>
  /\ regLog = <<>>
  /\ dispatched = <<>>
  /\ kernelspecs = <<>>
  /\ activated = {"notebook", "console"}
  /\ creators = <<>>
  /\ consoleCommands = <<>>
  /\ count = 0
  /\ sessions = <<>>
  /\ consoleWidgets = <<>>
  /\ consoleActive = Null

\* Handles are opaque: the next widget the tracker has not yet seen is the
\* least handle absent from regLog.
Fresh == IF Len(regLog) < MaxPanels THEN {Len(regLog) + 1} ELSE {}

\* Widgets the tracker has seen and the host has not disposed.
Live == Range(regLog) \ disposed

\* TrackingNotebookWidgetFactory.createNew: a new widget is built and handed
\* to the setter.
createNew(w) ==
  /\ w \in Fresh
  /\ Commit(activeNotebookSet(Tracker, w), "createNew", w, {}, <<w>>)
  /\ regLog' = Registered(w)
  /\ UNCHANGED <<disposed, isAttached, isVisible>>

\* tracker.activeNotebook = w by a consumer of the service: w is null, a
\* widget seen before and not disposed, or a widget not seen before.
SetActive(w) ==
  /\ w \in Live \cup Fresh \cup {Null}
  /\ Commit(activeNotebookSet(Tracker, w), "setActive", w, {}, <<w>>)
  /\ regLog' = Registered(w)
  /\ UNCHANGED <<disposed, isAttached, isVisible>>

\* The capturing focus listener on document.body.  target is the set of
\* tracked widgets whose node contains event.target.
Focus(target) ==
  LET ts == focusTargets(widgets, target)
  IN /\ target \subseteq Range(widgets)
     /\ Commit(applySetter(Tracker, ts), "focus", Null, target, ts)
     /\ UNCHANGED <<disposed, isAttached, isVisible, regLog>>

\* The host disposes w: its disposed signal fires once, running the slot
\* when one is connected, and the signal's connections are then cleared.
\* A disposed widget is out of the display tree.
Dispose(w) ==
  /\ w \in Live
  /\ disposed' = disposed \cup {w}
  /\ isAttached' = isAttached \ {w}
  /\ isVisible' = isVisible \ {w}
  /\ LET t == IF w \in connected THEN disposedSlot(Tracker, w) ELSE Tracker
     IN Commit([t EXCEPT !.connected = @ \ {w}], "dispose", w, {},
               IF w \in connected /\ activeWidget = w THEN <<Null>> ELSE <<>>)
  /\ UNCHANGED regLog

\* The host attaches or detaches a widget.
HostAttach(w, b) ==
  /\ w \in Live
  /\ isAttached' = IF b THEN isAttached \cup {w} ELSE isAttached \ {w}
  /\ isAttached' # isAttached
  /\ Commit(Tracker, "host", w, {}, <<>>)
  /\ UNCHANGED <<disposed, isVisible, regLog>>

\* The host shows or hides a widget.
HostShow(w, b) ==
  /\ w \in Live
  /\ isVisible' = IF b THEN isVisible \cup {w} ELSE isVisible \ {w}
  /\ isVisible' # isVisible
  /\ Commit(Tracker, "host", w, {}, <<>>)
  /\ UNCHANGED <<disposed, isAttached, regLog>>

\* The ids of the commands activateNotebookHandler adds a handler for.
NotebookCommands ==
  {"notebook:interrupt-kernel", "notebook:restart-kernel",
   "notebook:switch-kernel", "notebook-cells:run",
   "notebook-cells:runAndAdvance", "notebook-cells:runAndInsert",
   "notebook-cells:to-code", "notebook-cells:to-markdown",
   "notebook-cells:to-raw", "notebook-cells:cut", "notebook-cells:copy",
   "notebook-cells:paste", "notebook-cells:delete",
   "notebook-cells:insert-above", "notebook-cells:insert-below",
   "notebook-cells:select-above", "notebook-cells:select-below",
   "notebook-cells:extend-above", "notebook-cells:extend-below",
   "notebook-cells:editMode", "notebook-cells:commandMode",
   "notebook-cells:undo", "notebook-cells:redo"}

\* The ids of the commands activateConsole adds besides console:create-*.
ConsoleCommands == {"console:clear", "console:execute"}

\* A notebook handler without its test of tracker.activeNotebook.
notebookHandler_NoGuard(c, active, kernel) ==
  IF c = "notebook:interrupt-kernel" /\ ~kernel
    THEN <<>>
    ELSE <<[action |-> c, panel |-> active]>>

\* A notebook command handler: what it sends, and to which panel, given
\* tracker.activeNotebook and whether that panel's context has a kernel.
notebookHandler(c, active, kernel) ==
  IF active # Null
    THEN IF c = "notebook:interrupt-kernel" /\ ~kernel
           THEN <<>>
           ELSE <<[action |-> c, panel |-> active]>>
    ELSE <<>>

\* The console:clear and console:execute handlers.
consoleHandler(c, active) ==
  IF active # Null THEN <<[action |-> c, panel |-> active]>> ELSE <<>>

\* The history left by a handler outside the notebook tracker.
History(op, arg, kernel) ==
  /\ lastOp' = [op |-> op, arg |-> arg, target |-> {}, kernel |-> kernel]
  /\ preActive' = activeWidget
  /\ preWidgets' = widgets
  /\ emits' = <<>>
  /\ calls' = <<>>
  /\ UNCHANGED trackerVars

\* The user invokes a notebook command.
NotebookCommand(c, kernel) ==
  /\ "notebook" \in activated
  /\ kernel => c = "notebook:interrupt-kernel"
  /\ dispatched' = notebookHandler(c, activeWidget, kernel)
  /\ History(c, Null, kernel)
  /\ UNCHANGED pluginVars

\* The user invokes console:clear or console:execute.
ConsoleCommand(c) ==
  /\ "console" \in activated
  /\ dispatched' = consoleHandler(c, consoleActive)
  /\ History(c, Null, FALSE)
  /\ UNCHANGED pluginVars

Next ==
  \/ \E c \in NotebookCommands, k \in BOOLEAN : NotebookCommand(c, k)
  \/ \E c \in ConsoleCommands : ConsoleCommand(c)
  \/ \E w \in Panels : createNew(w)
  \/ \E w \in Panels \cup {Null} : SetActive(w)
  \/ \E target \in SUBSET Panels : Focus(target)
  \/ \E w \in Panels : Dispose(w)
  \/ \E w \in Panels, b \in BOOLEAN : HostAttach(w, b)
  \/ \E w \in Panels, b \in BOOLEAN : HostShow(w, b)

Spec == Init /\ [][Next]_vars

TypeOK ==
  /\ widgets \in Seq(Panels)
  /\ activeWidget \in Panels \cup {Null}
  /\ connected \subseteq Panels
  /\ disposed \subseteq Panels
  /\ isAttached \subseteq Panels
  /\ isVisible \subseteq Panels

\* Tracked widgets that pass the focus listener's three tests for the last
\* focus event.
Matching ==
  {w \in Range(preWidgets) :
     w \in isAttached /\ w \in isVisible /\ w \in lastOp.target}

\* The matching widget that was registered first.
FirstRegistered ==
  CHOOSE a \in Matching :
    \A b \in Matching : indexOf(regLog, a) <= indexOf(regLog, b)

\* C1: in every reachable state the active widget is none or a member of
\* the tracked list.
C1_ActiveIsTracked ==
  activeWidget = Null \/ activeWidget \in Range(widgets)

\* C2: when a tracked widget that is the active one is disposed, the active
\* widget is none once the disposed slot has run.
C2_DisposeActiveClears ==
  (lastOp.op = "dispose" /\ lastOp.arg \in Range(preWidgets)
     /\ preActive = lastOp.arg)
  => activeWidget = Null

\* C3: assigning a non-null untracked widget p tracks p, makes p active and
\* emits exactly one notification, with value p.
C3_UntrackedBecomesActive ==
  (lastOp.op \in {"setActive", "createNew"} /\ lastOp.arg # Null
     /\ lastOp.arg \notin Range(preWidgets))
  => /\ lastOp.arg \in Range(widgets)
     /\ activeWidget = lastOp.arg
     /\ Len(emits) = 1
     /\ emits[1].value = lastOp.arg

\* C4: the tracked list is the widgets registered and not yet disposed, in
\* order of first registration and without duplicates; registering a tracked
\* widget leaves the list alone and a disposal removes that widget only.
C4_TrackedList ==
  /\ widgets = SelectSeq(regLog, LAMBDA p : p \notin disposed)
  /\ \A i, j \in 1..Len(widgets) : i # j => widgets[i] # widgets[j]
  /\ (lastOp.op \in {"setActive", "createNew"}
        /\ lastOp.arg \in Range(preWidgets))
     => widgets = preWidgets
  /\ lastOp.op = "dispose"
     => widgets = SelectSeq(preWidgets, LAMBDA p : p # lastOp.arg)

\* C4 witness: a widget in the middle of a list of three was disposed.
C4_Witness ==
  /\ lastOp.op = "dispose"
  /\ Len(preWidgets) >= 3
  /\ lastOp.arg = preWidgets[2]
  /\ Len(widgets) = Len(preWidgets) - 1

\* C5: once a widget has been disposed it is never the active widget.
C5_ActiveNeverDisposed ==
  activeWidget \notin disposed

\* C6: assigning a tracked widget p that is not the active one makes p
\* active and emits exactly one notification, with value p, delivered when
\* the getter already returns p.
C6_TrackedBecomesActive ==
  (lastOp.op = "setActive" /\ lastOp.arg \in Range(preWidgets)
     /\ lastOp.arg # preActive)
  => /\ activeWidget = lastOp.arg
     /\ emits = <<[value |-> lastOp.arg, seen |-> lastOp.arg]>>

\* C6 witness: a tracked widget was assigned while another was active.
C6_Witness ==
  /\ lastOp.op = "setActive"
  /\ lastOp.arg \in Range(preWidgets)
  /\ preActive \in Range(preWidgets)
  /\ lastOp.arg # preActive
  /\ activeWidget = lastOp.arg

\* C7: assigning the widget that is already active changes neither the
\* active widget nor the tracked list and emits nothing.
C7_SameIsNoOp ==
  (lastOp.op = "setActive" /\ lastOp.arg # Null /\ lastOp.arg = preActive)
  => /\ activeWidget = preActive
     /\ widgets = preWidgets
     /\ emits = <<>>

\* C7 witness: the active widget was assigned again.
C7_Witness ==
  /\ lastOp.op = "setActive"
  /\ lastOp.arg # Null
  /\ lastOp.arg = preActive
  /\ activeWidget = lastOp.arg

\* C8: assigning none leaves the active widget none, whatever it was, and
\* the tracked list unchanged.
C8_NullClears ==
  (lastOp.op = "setActive" /\ lastOp.arg = Null)
  => /\ activeWidget = Null
     /\ widgets = preWidgets

\* C9: a handler that changes the active widget emits a notification with
\* the new value, and the disposal of the active widget emits one with value
\* none.
C9_ChangeNotifies ==
  /\ activeWidget # preActive
     => /\ Len(emits) >= 1
        /\ emits[Len(emits)].value = activeWidget
  /\ (lastOp.op = "dispose" /\ lastOp.arg \in Range(preWidgets)
        /\ preActive = lastOp.arg)
     => /\ Len(emits) = 1
        /\ emits[1].value = Null

\* C10: when two or more tracked widgets are attached, visible and contain
\* the focus target, the focus event makes the first registered of them
\* active, with at most one setter call and at most one notification.
C10_FirstMatchWins ==
  (lastOp.op = "focus" /\ Cardinality(Matching) >= 2)
  => /\ activeWidget = FirstRegistered
     /\ Len(calls) <= 1
     /\ Len(emits) <= 1

\* C10 witness: the later registered of two matching widgets was active and
\* the focus event moved the active widget to the earlier one.
C10_Witness ==
  /\ lastOp.op = "focus"
  /\ Cardinality(Matching) >= 2
  /\ preActive \in Matching
  /\ preActive # FirstRegistered
  /\ activeWidget = FirstRegistered

\* The first widget of the tracked list, in list order, that passes the
\* three tests.
FocusWinner ==
  LET i == CHOOSE i \in 1..Len(preWidgets) :
             /\ preWidgets[i] \in Matching
             /\ \A j \in 1..(i-1) : preWidgets[j] \notin Matching
  IN preWidgets[i]

\* C11: a focus event whose target is in no tracked widget leaves the active
\* widget and the tracked list as they were and emits nothing.
C11_FocusOutsideIsNoOp ==
  (lastOp.op = "focus" /\ lastOp.target \cap Range(preWidgets) = {})
  => /\ activeWidget = preActive
     /\ widgets = preWidgets
     /\ emits = <<>>

\* C11 witness: a widget was active, a tracked widget was attached and
\* visible, and a focus event hit no tracked widget.
C11_Witness ==
  /\ lastOp.op = "focus"
  /\ lastOp.target \cap Range(preWidgets) = {}
  /\ preActive \in Range(preWidgets)
  /\ \E w \in Range(preWidgets) : w \in isAttached /\ w \in isVisible
  /\ activeWidget = preActive

C14_ChangesOnlyByFocusOrDispose ==
  activeWidget # preActive => lastOp.op \in {"focus", "dispose"}

\* C14 amended: the active widget changes only in a focus event, a disposal
\* or an assignment of an already tracked widget; creation and registration
\* never change it.
C14_ChangesOnlyByFocusDisposeOrAssign ==
  activeWidget # preActive
  => \/ lastOp.op \in {"focus", "dispose"}
     \/ lastOp.op = "setActive" /\ lastOp.arg \in Range(preWidgets)

\* C14 witness: a widget was created while another one was active.
C14_Witness ==
  /\ lastOp.op = "createNew"
  /\ preActive # Null
  /\ lastOp.arg \in Range(widgets)
  /\ activeWidget = preActive

\* C16: a focus event assigns the first tracked widget, in list order, that
\* is attached and visible and contains the target; widgets failing one of
\* the three tests are skipped, and with no such widget nothing is assigned.
C16_FocusNeedsAllThree ==
  lastOp.op = "focus"
  => IF Matching = {}
       THEN calls = <<>> /\ activeWidget = preActive
       ELSE calls = <<FocusWinner>> /\ activeWidget = FocusWinner

\* C16 witness: the first tracked widget contained the target but was
\* detached or hidden, and a later widget became active.
C16_Witness ==
  /\ lastOp.op = "focus"
  /\ Len(preWidgets) >= 2
  /\ preWidgets[1] \in lastOp.target
  /\ preWidgets[1] \notin isAttached \cap isVisible
  /\ activeWidget # preActive
  /\ activeWidget # preWidgets[1]

\* C18: every notification carries the value the getter returns when it is
\* emitted, that value differs from the active widget before the handler,
\* and a handler that leaves the active widget unchanged emits nothing.
C18_NotificationsAreChanges ==
  /\ \A i \in 1..Len(emits) :
       /\ emits[i].value = emits[i].seen
       /\ emits[i].value # preActive
  /\ activeWidget = preActive => emits = <<>>

\* C18 witness: a focus event changed the active widget and emitted once.
C18_Witness ==
  /\ lastOp.op = "focus"
  /\ preActive # Null
  /\ activeWidget # preActive
  /\ Len(emits) = 1

\* Kernel names and display names are opaque strings: kernel names are
\* 1..MaxKernels, display names 1..MaxDisplay in collation order.
KernelNames == 1..MaxKernels

DisplayNames == 1..MaxDisplay

\* The kernelspecs objects the services can hold: distinct kernel names in
\* iteration order, each with a display name.  Kernel names are opaque and
\* are numbered in iteration order.
KernelSpecSets ==
  UNION {{ks \in [1..n -> [name : KernelNames, display : DisplayNames]] :
            \A i \in 1..n : ks[i].name = i}
         : n \in 0..MaxKernels}

\* An assignment that keeps the kernel already stored for the display name.
mapPut_FirstWins(m, d, k) ==
  IF d \in Range(m.keys)
    THEN m
    ELSE [keys |-> Append(m.keys, d),
          val  |-> [x \in DOMAIN m.val \cup {d} |->
                      IF x = d THEN k ELSE m.val[x]]]

\* displayNameMap[displayName] = kernelName: keys keep the order of their
\* first assignment, the value is overwritten.
mapPut(m, d, k) ==
  [keys |-> IF d \in Range(m.keys) THEN m.keys ELSE Append(m.keys, d),
   val  |-> [x \in DOMAIN m.val \cup {d} |-> IF x = d THEN k ELSE m.val[x]]]

RECURSIVE buildDisplayNameMap(_, _)
\* The for-in loop filling displayNameMap from the first n kernelspecs.
buildDisplayNameMap(specs, n) ==
  IF n = 0
    THEN [keys |-> <<>>, val |-> <<>>]
    ELSE mapPut(buildDisplayNameMap(specs, n - 1),
                specs[n].display, specs[n].name)

\* a.localeCompare(b): negative, zero or positive.
localeCompare(a, b) ==
  a - b

RECURSIVE insertSorted(_, _)
\* x put into an ascending sequence, after the elements not greater than it.
insertSorted(sorted, x) ==
  IF sorted = <<>> THEN <<x>>
  ELSE IF localeCompare(x, Head(sorted)) < 0 THEN <<x>> \o sorted
  ELSE <<Head(sorted)>> \o insertSorted(Tail(sorted), x)

RECURSIVE sortNames(_)
\* Object.keys(displayNameMap).sort((a, b) => a.localeCompare(b))
sortNames(names) ==
  IF names = <<>> THEN <<>>
  ELSE insertSorted(sortNames(SubSeq(names, 1, Len(names) - 1)),
                    names[Len(names)])

\* The loop over the sorted display names: one entry per display name,
\* bound to displayNameMap[displayName].
entriesOf(specs) ==
  LET m     == buildDisplayNameMap(specs, Len(specs))
      names == sortNames(m.keys)
  IN [i \in 1..Len(names) |->
        [displayName |-> names[i], kernelName |-> m.val[names[i]]]]

\* The template string reading the counter after the increment.
consolePath_AfterIncrement(c) ==
  c + 1

\* `Console-${count++}`: the number in the path is count before the
\* increment.
consolePath(c) ==
  c

\* count after count++.
countAfter(c) ==
  c + 1

\* The console focus listener's loop: the widget it makes active, or Null.
RECURSIVE consoleFocusTarget(_, _, _, _)
consoleFocusTarget(ws, att, vis, target) ==
  IF ws = <<>> THEN Null
  ELSE IF Head(ws) \in att /\ Head(ws) \in vis /\ Head(ws) \in target
    THEN Head(ws)
  ELSE consoleFocusTarget(Tail(ws), att, vis, target)

\* Console panels that are open: their session started and they are not
\* disposed.  A console panel is named by the index of its request.
OpenConsoles == {i \in 1..Len(sessions) : sessions[i].status = "open"}

InitPlugins ==
  /\ widgets = <<>>
  /\ activeWidget = Null
  /\ connected = {}
  /\ disposed = {}
  /\ isAttached = {}
  /\ isVisible = {}
  /\ emits = <<>>
  /\ calls = <<>>
  /\ lastOp = [op |-> "init", arg |-> Null, target |-> {}, kernel |-> FALSE]
  /\ preActive = Null
  /\ preWidgets = <<>>
  /\ regLog = <<>>
  /\ dispatched = <<>>
  /\ kernelspecs \in KernelSpecSets
  /\ activated = {}
  /\ creators = <<>>
  /\ consoleCommands = <<>>
  /\ count = 0
  /\ sessions = <<>>
  /\ consoleWidgets = <<>>
  /\ consoleActive = Null

\* activateNotebookHandler: the creators registered for the kernelspecs.
activateNotebookHandler ==
  /\ "notebook" \notin activated
  /\ activated' = activated \cup {"notebook"}
  /\ creators' = entriesOf(kernelspecs)
  /\ dispatched' = <<>>
  /\ History("activateNotebookHandler", Null, FALSE)
  /\ UNCHANGED <<kernelspecs, consoleCommands, count, sessions,
                 consoleWidgets, consoleActive>>

\* activateConsole: the console:create commands and palette entries.
activateConsole ==
  /\ "console" \notin activated
  /\ activated' = activated \cup {"console"}
  /\ consoleCommands' = entriesOf(kernelspecs)
  /\ count' = 0
  /\ dispatched' = <<>>
  /\ History("activateConsole", Null, FALSE)
  /\ UNCHANGED <<kernelspecs, creators, sessions, consoleWidgets,
                 consoleActive>>

\* The handler of the i-th console:create command: manager.startNew.
ConsoleCreate(i) ==
  /\ "console" \in activated
  /\ i \in 1..Len(consoleCommands)
  /\ Len(sessions) < MaxConsoles
  /\ sessions' = Append(sessions,
                        [notebookPath |-> consolePath(count),
                         kernelName |-> consoleCommands[i].kernelName,
                         status |-> "pending"])
  /\ count' = countAfter(count)
  /\ dispatched' = <<>>
  /\ History("console:create", Len(sessions) + 1, FALSE)
  /\ UNCHANGED <<kernelspecs, activated, creators, consoleCommands,
                 consoleWidgets, consoleActive>>

\* The session of request i starts: the then callback builds the console
\* panel, adds it to the main area and connects its disposed slot.
SessionStarted(i) ==
  /\ i \in 1..Len(sessions)
  /\ sessions[i].status = "pending"
  /\ sessions' = [sessions EXCEPT ![i].status = "open"]
  /\ dispatched' = <<>>
  /\ History("sessionStarted", i, FALSE)
  /\ UNCHANGED <<kernelspecs, activated, creators, consoleCommands, count,
                 consoleWidgets, consoleActive>>

\* The session of request i fails to start: the promise has no rejection
\* handler.
SessionFailed(i) ==
  /\ i \in 1..Len(sessions)
  /\ sessions[i].status = "pending"
  /\ sessions' = [sessions EXCEPT ![i].status = "failed"]
  /\ dispatched' = <<>>
  /\ History("sessionFailed", i, FALSE)
  /\ UNCHANGED <<kernelspecs, activated, creators, consoleCommands, count,
                 consoleWidgets, consoleActive>>

\* The host disposes console panel i: its disposed slot runs.
ConsoleDispose(i) ==
  /\ i \in OpenConsoles
  /\ sessions' = [sessions EXCEPT ![i].status = "disposed"]
  /\ consoleWidgets' = splice1(consoleWidgets, indexOf(consoleWidgets, i))
  /\ consoleActive' = IF consoleActive = i THEN Null ELSE consoleActive
  /\ dispatched' = <<>>
  /\ History("consoleDispose", i, FALSE)
  /\ UNCHANGED <<kernelspecs, activated, creators, consoleCommands, count>>

\* The console focus listener; att, vis and target are the tracked console
\* panels that are attached, visible, and contain event.target.
ConsoleFocus(att, vis, target) ==
  LET w == consoleFocusTarget(consoleWidgets, att, vis, target)
  IN /\ "console" \in activated
     /\ att \cup vis \cup target \subseteq Range(consoleWidgets)
     /\ consoleActive' = IF w # Null THEN w ELSE consoleActive
     /\ dispatched' = <<>>
     /\ History("consoleFocus", Null, FALSE)
     /\ UNCHANGED <<kernelspecs, activated, creators, consoleCommands,
                    count, sessions, consoleWidgets>>

NextPlugins ==
  \/ activateNotebookHandler
  \/ activateConsole
  \/ \E i \in 1..MaxDisplay : ConsoleCreate(i)
  \/ \E i \in 1..MaxConsoles : SessionStarted(i)
  \/ \E i \in 1..MaxConsoles : SessionFailed(i)
  \/ \E i \in 1..MaxConsoles : ConsoleDispose(i)
  \/ \E att, vis, target \in SUBSET OpenConsoles :
        ConsoleFocus(att, vis, target)
  \/ \E c \in ConsoleCommands : ConsoleCommand(c)

SpecPlugins == InitPlugins /\ [][NextPlugins]_vars

\* C15: a notebook or console command invoked with no active panel sends
\* nothing and leaves the tracker alone; with an active panel it sends its
\* action to exactly that panel.
C15_CommandsFollowActive ==
  /\ lastOp.op \in NotebookCommands
     => /\ widgets = preWidgets /\ activeWidget = preActive
        /\ IF preActive = Null
             THEN dispatched = <<>>
             ELSE dispatched = <<[action |-> lastOp.op, panel |-> preActive]>>
  /\ lastOp.op \in ConsoleCommands
     => /\ widgets = preWidgets /\ activeWidget = preActive
        /\ IF consoleActive = Null
             THEN dispatched = <<>>
             ELSE dispatched = <<[action |-> lastOp.op, panel |-> consoleActive]>>

\* C15 amended: as C15, except that notebook:interrupt-kernel sends nothing
\* when the active panel's context has no kernel.
C15_CommandsFollowActiveOrNoKernel ==
  /\ lastOp.op \in NotebookCommands
     => /\ widgets = preWidgets /\ activeWidget = preActive
        /\ IF preActive = Null
               \/ (lastOp.op = "notebook:interrupt-kernel" /\ ~lastOp.kernel)
             THEN dispatched = <<>>
             ELSE dispatched = <<[action |-> lastOp.op, panel |-> preActive]>>
  /\ lastOp.op \in ConsoleCommands
     => /\ widgets = preWidgets /\ activeWidget = preActive
        /\ IF consoleActive = Null
             THEN dispatched = <<>>
             ELSE dispatched = <<[action |-> lastOp.op, panel |-> consoleActive]>>

\* C15 witness: a command was invoked with no active panel while panels
\* were tracked, and nothing was sent.
C15_Witness ==
  /\ lastOp.op \in NotebookCommands
  /\ preActive = Null
  /\ widgets # <<>>
  /\ dispatched = <<>>

\* The display names of the kernelspecs.
DisplayNamesUsed == {kernelspecs[i].display : i \in 1..Len(kernelspecs)}

\* The kernel iterated last among those with display name d.
LastKernelNamed(d) ==
  LET i == CHOOSE i \in 1..Len(kernelspecs) :
             /\ kernelspecs[i].display = d
             /\ \A j \in (i+1)..Len(kernelspecs) : kernelspecs[j].display # d
  IN kernelspecs[i].name

\* One entry per display name in use, in ascending order, each bound to the
\* kernel iterated last among those with that display name.
OnePerDisplayName(entries) ==
  /\ Len(entries) = Cardinality(DisplayNamesUsed)
  /\ {entries[i].displayName : i \in 1..Len(entries)} = DisplayNamesUsed
  /\ \A i, j \in 1..Len(entries) :
       i < j => entries[i].displayName < entries[j].displayName
  /\ \A i \in 1..Len(entries) :
       entries[i].kernelName = LastKernelNamed(entries[i].displayName)

\* C13: every open console panel is in the console's tracked list exactly
\* once, and a notebook panel just built by the tracking factory is in the
\* notebook tracker's list exactly once.
C13_CreatedPanelsAreTracked ==
  /\ \A i \in OpenConsoles :
       Cardinality({j \in 1..Len(consoleWidgets) : consoleWidgets[j] = i}) = 1
  /\ lastOp.op = "createNew"
     => Cardinality({j \in 1..Len(widgets) : widgets[j] = lastOp.arg}) = 1

C19_ConsolePathsCount ==
  /\ \A i \in 1..Len(sessions) : sessions[i].notebookPath = i - 1
  /\ \A i, j \in 1..Len(sessions) :
       i # j => sessions[i].notebookPath # sessions[j].notebookPath

\* C19 witness: two consoles were requested for different kernels and the
\* second session started while the first was still pending.
C19_Witness ==
  /\ Len(sessions) >= 2
  /\ sessions[1].kernelName # sessions[2].kernelName
  /\ sessions[1].status = "pending"
  /\ sessions[2].status = "open"
  /\ lastOp.op = "sessionStarted"
====
